---- MODULE Spec2Model ----
(***************************************************************************)
(* A model of bin/all-python.py: version parsing and ordering, the version *)
(* matchers, the section printers, and the control flow of main().         *)
(* Python strings are modelled as sequences of one-character strings, so   *)
(* that splitting, stripping, globbing and formatting are computed.        *)
(***************************************************************************)
EXTENDS Integers, Sequences, FiniteSets, TLC

VARIABLES
    argv,       \* the command line: which options were given, and their values
    args,       \* the argparse namespace built by parse_args()
    installed,  \* version strings of <prefix>/Python-*/bin/python, in glob order
    pc,         \* position of main() (or of the printer driver)
    ret,        \* what main() returned, or how it ended
    todo,       \* the interpreters the for loop has still to visit
    p,          \* main's plain SectionPrinter
    csp,        \* the CompactSectionPrinter
    out,        \* every print() call made so far, in order
    log,        \* every command executed so far, in order
    calls,      \* every (header, msg) handed to CompactSectionPrinter.print
    va, vb,     \* two version strings under comparison
    vres        \* the outcome of comparing Version(va) with Version(vb)

vars == <<argv, args, installed, pc, ret, todo, p, csp, out, log, calls, va, vb, vres>>

\* ---------------------------------------------------------------- bounds
\* Most interpreters found under the prefix.
MaxInterps == 2
\* Most print() calls made on a CompactSectionPrinter driven directly.
MaxCalls == 3
\* Longest version string compared.
MaxVerLen == 2

\* ---------------------------------------------------------------- strings
\* Python's None, where a header or a message may be None.
None == <<"<None>">>

Digits == {"0", "1", "2"}

\* Code points of the characters used, for str.__lt__.
Ord(c) ==
    CASE c = " " -> 32 [] c = "," -> 44 [] c = "." -> 46
      [] c = "0" -> 48 [] c = "1" -> 49 [] c = "2" -> 50
      [] c = "r" -> 114 [] c = "x" -> 120
      [] OTHER -> 127

DigitVal(c) == CASE c = "0" -> 0 [] c = "1" -> 1 [] c = "2" -> 2 [] OTHER -> 0

\* All sequences over S of length at most n.
SeqsUpTo(S, n) == UNION {[1..k -> S] : k \in 0..n}

IsDigits(s) == \A i \in 1..Len(s) : s[i] \in Digits

\* int(s) for a string of decimal digits.
RECURSIVE IntOf(_)
IntOf(s) ==
    IF s = <<>> THEN 0
    ELSE IntOf(SubSeq(s, 1, Len(s) - 1)) * 10 + DigitVal(s[Len(s)])

\* str.split(sep): always at least one piece.
RECURSIVE Split(_, _)
Split(s, sep) ==
    IF \A i \in 1..Len(s) : s[i] # sep THEN <<s>>
    ELSE LET k == CHOOSE i \in 1..Len(s) :
                      s[i] = sep /\ \A j \in 1..(i - 1) : s[j] # sep
         IN <<SubSeq(s, 1, k - 1)>> \o Split(SubSeq(s, k + 1, Len(s)), sep)

\* The longest prefix of digits: what the greedy (\d*) captures.
RECURSIVE LeadingDigits(_)
LeadingDigits(s) ==
    IF s = <<>> \/ Head(s) \notin Digits THEN <<>>
    ELSE <<Head(s)>> \o LeadingDigits(Tail(s))

\* str.rstrip('\n')
RECURSIVE RStripNL(_)
RStripNL(s) ==
    IF s # <<>> /\ s[Len(s)] = "\n" THEN RStripNL(SubSeq(s, 1, Len(s) - 1)) ELSE s

\* str.strip()
RECURSIVE Strip(_)
Strip(s) ==
    IF s # <<>> /\ Head(s) = " " THEN Strip(Tail(s))
    ELSE IF s # <<>> /\ s[Len(s)] = " " THEN Strip(SubSeq(s, 1, Len(s) - 1))
    ELSE s

\* str < str: by code point, a proper prefix first.
RECURSIVE StrLt(_, _)
StrLt(s, t) ==
    IF t = <<>> THEN FALSE
    ELSE IF s = <<>> THEN TRUE
    ELSE IF Head(s) # Head(t) THEN Ord(Head(s)) < Ord(Head(t))
    ELSE StrLt(Tail(s), Tail(t))

\* ---------------------------------------------------------------- Version
\* One dot-separated segment: int(c) when it is all digits, otherwise the regular
\* expression (\d*)(.*) with a missing integer part read as 0.
ParseComponent(c) ==
    IF c # <<>> /\ IsDigits(c) THEN <<IntOf(c), <<>>>>
    ELSE LET d == LeadingDigits(c)
         IN <<IF d = <<>> THEN 0 ELSE IntOf(d), SubSeq(c, Len(d) + 1, Len(c))>>

Version_parse(version) ==
    LET components == Split(version, ".")
    IN [i \in 1..Len(components) |-> ParseComponent(components[i])]

Version(version) == [kind |-> "Version", version |-> version,
                     components |-> Version_parse(version)]

Version_str(v) == v.version

\* (int, str) < (int, str)
PairLt(a, b) == a[1] < b[1] \/ (a[1] = b[1] /\ StrLt(a[2], b[2]))

\* tuple < tuple: the first differing pair decides, then the length.
RECURSIVE TupleLt(_, _)
TupleLt(a, b) ==
    IF b = <<>> THEN FALSE
    ELSE IF a = <<>> THEN TRUE
    ELSE IF Head(a) # Head(b) THEN PairLt(Head(a), Head(b))
    ELSE TupleLt(Tail(a), Tail(b))

\* A comparison that reads the version strings instead of the parsed components.
Version_lt_raw(a, b) == StrLt(a.version, b.version)

Version_lt(a, b) == TupleLt(a.components, b.components)

Version_eq(a, b) == a.components = b.components

\* functools.total_ordering: __le__ and __gt__ derived from __lt__ and __eq__.
Version_le(a, b) == Version_lt(a, b) \/ Version_eq(a, b)

Version_gt(a, b) == ~Version_lt(a, b) /\ ~Version_eq(a, b)

\* ---------------------------------------------------------------- matchers
MinVersionMatcher(version) == [kind |-> "MinVersionMatcher", version |-> Version(version)]

MinVersionMatcher_match(m, ver) == Version_le(m.version, ver)

MaxVersionMatcher(version) == [kind |-> "MaxVersionMatcher", version |-> Version(version)]

MaxVersionMatcher_match(m, ver) == Version_lt(ver, m.version)

\* p.replace('x', '?*')
RECURSIVE ReplaceX(_)
ReplaceX(s) ==
    IF s = <<>> THEN <<>>
    ELSE (IF Head(s) = "x" THEN <<"?", "*">> ELSE <<Head(s)>>) \o ReplaceX(Tail(s))

\* re.compile(fnmatch.translate(g)).fullmatch(s): '*' is any run of characters,
\* '?' any one character, every other character of the alphabet itself.
RECURSIVE GlobFullMatch(_, _)
GlobFullMatch(g, s) ==
    IF g = <<>> THEN s = <<>>
    ELSE IF Head(g) = "*"
         THEN GlobFullMatch(Tail(g), s) \/ (s # <<>> /\ GlobFullMatch(g, Tail(s)))
    ELSE IF Head(g) = "?" THEN s # <<>> /\ GlobFullMatch(Tail(g), Tail(s))
    ELSE s # <<>> /\ Head(s) = Head(g) /\ GlobFullMatch(Tail(g), Tail(s))

\* The glob patterns _make_matcher compiles from one -v argument.
MultiVersionMatcher_patterns(pattern) ==
    LET patterns == IF (\E i \in 1..Len(pattern) : pattern[i] \in {",", "."})
                    THEN [i \in 1..Len(Split(pattern, ",")) |->
                              Strip(Split(pattern, ",")[i])]
                    ELSE <<Strip(pattern)>>
    IN [i \in 1..Len(patterns) |-> ReplaceX(patterns[i])]

MultiVersionMatcher(version_pattern) ==
    [kind |-> "MultiVersionMatcher",
     matchers |-> MultiVersionMatcher_patterns(version_pattern)]

MultiVersionMatcher_match(m, ver) ==
    \E i \in 1..Len(m.matchers) : GlobFullMatch(m.matchers[i], Version_str(ver))

NullVersionMatcher == [kind |-> "NullVersionMatcher"]

\* What a call gives: a value, or an exception raised.
Returned(v) == [raised |-> FALSE, value |-> v]
Raised(e) == [raised |-> TRUE, value |-> e]

\* obj.match(ver) by the class of obj; a class with no method match (Version has
\* none) raises AttributeError.
Match(obj, ver) ==
    CASE obj.kind = "NullVersionMatcher" -> Returned(TRUE)
      [] obj.kind = "MinVersionMatcher" -> Returned(MinVersionMatcher_match(obj, ver))
      [] obj.kind = "MaxVersionMatcher" -> Returned(MaxVersionMatcher_match(obj, ver))
      [] obj.kind = "MultiVersionMatcher" -> Returned(MultiVersionMatcher_match(obj, ver))
      [] OTHER -> Raised("AttributeError")

\* main.version_matcher: a and b and c, left to right; False stops the evaluation
\* and an exception leaves it.
version_matcher(a, ver) ==
    LET r1 == Match(a.min_version, ver)
        r2 == Match(a.max_version, ver)
        r3 == Match(a.version, ver)
    IN IF r1.raised \/ ~r1.value THEN r1
       ELSE IF r2.raised \/ ~r2.value THEN r2
       ELSE r3

\* ---------------------------------------------------------------- repository
PythonInterpreter(version_str) == [version |-> Version(version_str)]

\* PythonRepository.find_all: one interpreter per directory, in glob order.
find_all(dirs) == [i \in 1..Len(dirs) |-> PythonInterpreter(dirs[i])]

\* PythonRepository.find, consumed to the end: the interpreters the matcher
\* accepts, in glob order, unless a call of the matcher raises.
RECURSIVE find(_, _)
find(a, pys) ==
    IF pys = <<>> THEN Returned(<<>>)
    ELSE LET r == version_matcher(a, Head(pys).version)
         IN IF r.raised THEN r
            ELSE LET rest == find(a, Tail(pys))
                 IN IF rest.raised THEN rest
                    ELSE Returned((IF r.value THEN <<Head(pys)>> ELSE <<>>)
                                  \o rest.value)

\* Insert into a sorted list after every element that is not greater (stable).
RECURSIVE Insert(_, _)
Insert(py, s) ==
    IF s = <<>> THEN <<py>>
    ELSE IF Version_lt(py.version, Head(s).version) THEN <<py>> \o s
    ELSE <<Head(s)>> \o Insert(py, Tail(s))

\* The list left in glob order.
sorted_unsorted(pys) == pys

\* sorted(pys, key=lambda py: py.version): stable, ascending.
RECURSIVE sorted(_)
sorted(pys) ==
    IF pys = <<>> THEN <<>>
    ELSE Insert(pys[Len(pys)], sorted(SubSeq(pys, 1, Len(pys) - 1)))

\* ---------------------------------------------------------------- commands
ShellCommand(cmd) == [kind |-> "ShellCommand", cmd |-> cmd]

NullShellCommand == [kind |-> "NullShellCommand"]

PythonCommand(python_args) == [kind |-> "PythonCommand", args |-> python_args]

\* subprocess.CalledProcessError(returncode, cmd, output)
CalledProcessError(cmd, proc) ==
    [cmd |-> cmd, returncode |-> proc.returncode, stdout |-> proc.stdout]

\* subprocess.run(..., check=True) on a process that ended as proc: its captured
\* output, or CalledProcessError when the exit status is not zero.
ShellCommand_run(c, proc) ==
    IF proc.returncode = 0 THEN Returned(proc.stdout)
    ELSE Raised(CalledProcessError(c.cmd, proc))

NullShellCommand_run == Returned(<<>>)

\* f'{e.cmd}' of the argument list ['python', *args]
PythonCommand_cmd(c) == <<"[", "python">> \o c.args \o <<"]">>

PythonCommand_run(c, proc) ==
    IF proc.returncode = 0 THEN Returned(proc.stdout)
    ELSE Raised(CalledProcessError(PythonCommand_cmd(c), proc))

\* cmd.run(...) by the class of cmd.
Run(cmd, proc) ==
    CASE cmd.kind = "NullShellCommand" -> NullShellCommand_run
      [] cmd.kind = "ShellCommand" -> ShellCommand_run(cmd, proc)
      [] OTHER -> PythonCommand_run(cmd, proc)

\* str(e) of a CalledProcessError
CalledProcessError_str(e) ==
    <<"Command '">> \o e.cmd
        \o <<"' returned non-zero exit status ", ToString(e.returncode), ".">>

\* The text main() builds from a failed per-interpreter command.
FailureOut(e) ==
    RStripNL(e.stdout) \o <<"\n", "\n">>
        \o <<"Command returned non-zero exit status ", ToString(e.returncode), "\n">>
        \o <<"Command: ">> \o e.cmd

\* ---------------------------------------------------------------- printers
\* One call of the builtin print(): the statement that made it, the stream it
\* wrote to and the text written, the end included.
Write(stmt, file, text) == [stmt |-> stmt, file |-> file, text |-> text]

SectionPrinter(suppress_empty_msg, file) ==
    [suppress_empty_msg |-> suppress_empty_msg, file |-> file,
     need_section_gap |-> FALSE]

SectionPrinter_decorate_header(header) == <<"=====> ">> \o header \o <<" <=====">>

\* SectionPrinter.print: the printer afterwards and the print() calls made. The
\* gap is print() with no file, so it goes to standard output.
SectionPrinter_print(sp, header, msg) ==
    IF sp.suppress_empty_msg /\ msg = <<>> THEN [sp |-> sp, w |-> <<>>]
    ELSE LET end == IF msg # <<>> /\ msg[Len(msg)] = "\n" THEN <<>> ELSE <<"\n">>
         IN [sp |-> [sp EXCEPT !.need_section_gap = TRUE],
             w |-> (IF sp.need_section_gap
                    THEN <<Write("gap", "stdout", <<"\n">>)>> ELSE <<>>)
                   \o <<Write("header", sp.file,
                              SectionPrinter_decorate_header(header) \o <<"\n">>),
                        Write("msg", sp.file, msg \o end)>>]

\* A compactor whose inner printer suppresses empty messages.
CompactSectionPrinter_suppressing ==
    [p |-> SectionPrinter(TRUE, "stdout"),
     first_header |-> None, last_header |-> None, previous_msg |-> None]

\* CompactSectionPrinter.__init__(file=None)
CompactSectionPrinter ==
    [p |-> SectionPrinter(FALSE, "stdout"),
     first_header |-> None, last_header |-> None, previous_msg |-> None]

CompactSectionPrinter_is_first(c) == c.first_header = None

CompactSectionPrinter_is_omittable(c, msg) == c.previous_msg = msg

\* Truth value of an Optional[str]: None and '' are false.
Truthy(x) == x # None /\ x # <<>>

\* CompactSectionPrinter._print
CompactSectionPrinter_print_pending(c) ==
    LET header == IF Truthy(c.last_header)
                  THEN c.first_header \o <<" ~ ">> \o c.last_header
                  ELSE c.first_header
        r == SectionPrinter_print(c.p, header, c.previous_msg)
    IN [c |-> [c EXCEPT !.p = r.sp], w |-> r.w]

\* CompactSectionPrinter._update_section
CompactSectionPrinter_update_section(c, header, msg) ==
    LET r == IF ~CompactSectionPrinter_is_first(c)
             THEN CompactSectionPrinter_print_pending(c)
             ELSE [c |-> c, w |-> <<>>]
    IN [c |-> [r.c EXCEPT !.first_header = header, !.last_header = None,
                          !.previous_msg = msg],
        w |-> r.w]

\* CompactSectionPrinter.print
CompactSectionPrinter_print(c, header, msg) ==
    IF CompactSectionPrinter_is_first(c) \/ ~CompactSectionPrinter_is_omittable(c, msg)
    THEN CompactSectionPrinter_update_section(c, header, msg)
    ELSE [c |-> [c EXCEPT !.last_header = header], w |-> <<>>]

\* CompactSectionPrinter.close
CompactSectionPrinter_close(c) == CompactSectionPrinter_update_section(c, None, None)

\* ---------------------------------------------------------------- parse_args
\* An option of the command line: absent, or given with a value.
Absent == [given |-> FALSE, value |-> <<>>]
Given(v) == [given |-> TRUE, value |-> v]

NoneObject == [kind |-> "NoneType"]

\* parse_args(): each option converted by its type= callable, or its default.
parse_args(cl) ==
    [before      |-> IF cl.before.given THEN ShellCommand(cl.before.value)
                     ELSE NullShellCommand,
     exec        |-> IF cl.exec.given THEN ShellCommand(cl.exec.value) ELSE NoneObject,
     after       |-> IF cl.after.given THEN ShellCommand(cl.after.value)
                     ELSE NullShellCommand,
     min_version |-> IF cl.min_version.given THEN Version(cl.min_version.value)
                     ELSE NullVersionMatcher,
     max_version |-> IF cl.max_version.given THEN Version(cl.max_version.value)
                     ELSE NullVersionMatcher,
     version     |-> IF cl.version.given THEN MultiVersionMatcher(cl.version.value)
                     ELSE NullVersionMatcher,
     python_args |-> cl.python_args]

\* bool(x) of args.exec: None is false, a ShellCommand object is true.
ObjectBool(x) == x.kind # "NoneType"

\* bool(x) of a list
ListBool(x) == x # <<>>

\* ---------------------------------------------------------------- inputs
\* Directory names Python-<version> that may exist under the prefix.
VersionDirs == {<<"2">>, <<"0", "2">>, <<"1", "0">>}

\* Values given to -s and -e.
BoundArgs == {<<"2">>, <<"1", "0">>}

\* Values given to -v.
PatternArgs == {<<"1", "x">>, <<"2", ",", " ", "1", "0">>}

\* Values of the positional python_args.
PythonArgs == {<<>>, <<"-c">>, <<"bash">>}

\* How a hook's process may end.
HookProcs == {[returncode |-> 0, stdout |-> <<>>],
              [returncode |-> 0, stdout |-> <<"b", "\n">>],
              [returncode |-> 1, stdout |-> <<>>],
              [returncode |-> 1, stdout |-> <<"e", "\n">>]}

\* How a per-interpreter process may end.
RunProcs == {[returncode |-> 0, stdout |-> <<>>],
             [returncode |-> 0, stdout |-> <<"a", "\n">>],
             [returncode |-> 1, stdout |-> <<"a", "\n">>]}

\* Headers and messages handed to a CompactSectionPrinter driven directly.
Labels == {<<>>, <<"a">>, <<"b">>}
Msgs == {<<>>, <<"x">>, <<"y", "\n">>}

\* Characters of the version strings compared.
VersionChars == {"0", "1", "2", ".", "r"}

Option(S) == {Absent} \cup {Given(v) : v \in S}

CommandLines ==
    [before : Option({<<"B">>}), exec : Option({<<"E">>}), after : Option({<<"A">>}),
     min_version : Option(BoundArgs), max_version : Option(BoundArgs),
     version : Option(PatternArgs), python_args : PythonArgs]

\* Sequences of distinct directory names, at most MaxInterps long.
GlobResults ==
    {d \in SeqsUpTo(VersionDirs, MaxInterps) :
        \A i, j \in 1..Len(d) : i # j => d[i] # d[j]}

NoResult == [done |-> FALSE, lt |-> FALSE, eq |-> FALSE, gt |-> FALSE, le |-> FALSE]

\* ---------------------------------------------------------------- main()
Event(ev, ver, proc) ==
    [ev |-> ev, ver |-> ver, returncode |-> proc.returncode, stdout |-> proc.stdout]

NoProc == [returncode |-> 0, stdout |-> <<>>]

\* The processes a hook may turn out to be: a NullShellCommand starts none.
ProcsOf(cmd) == IF cmd.kind = "NullShellCommand" THEN {NoProc} ELSE HookProcs

\* except InvalidArgument: print the message to standard error, return 1.
InvalidArgument(msg) ==
    /\ out' = out \o <<Write("error", "stderr", <<"ERROR: ", msg, "\n">>)>>
    /\ ret' = "1"
    /\ pc' = "done"

\* except subprocess.CalledProcessError: print the error and the captured output to
\* standard error; the handler has no return statement, so main() returns None.
FatalHandler(e) ==
    /\ out' = out
           \o <<Write("error", "stderr",
                      <<"ERROR: ">> \o CalledProcessError_str(e) \o <<"\n">>)>>
           \o SectionPrinter_print(SectionPrinter(TRUE, "stderr"),
                                   <<"stdout/stderr">>, e.stdout).w
    /\ ret' = "None"
    /\ pc' = "done"

\* exit(main()): the status the process ends with.
ExitStatus(r) ==
    CASE r = "0" -> 0
      [] r = "1" -> 1
      [] r = "None" -> 0
      [] r = "execvp" -> 0
      [] OTHER -> 1

MainInit ==
    /\ argv \in CommandLines
    /\ args = parse_args(argv)
    /\ installed \in GlobResults
    /\ pc = "start"
    /\ ret = "running"
    /\ todo = <<>>
    /\ p = SectionPrinter(TRUE, "stdout")
    /\ csp = CompactSectionPrinter
    /\ out = <<>>
    /\ log = <<>>
    /\ calls = <<>>
    /\ va = <<>> /\ vb = <<>> /\ vres = NoResult

\* A validation that lets --exec together with python_args through.
Validate_nonexclusive ==
    /\ pc = "start"
    /\ IF ~(ObjectBool(args.exec) \/ ListBool(args.python_args))
       THEN InvalidArgument("must specify one argument of --exec or python_args")
       ELSE /\ pc' = "before"
            /\ UNCHANGED <<out, ret>>
    /\ UNCHANGED <<argv, args, installed, todo, p, csp, log, calls, va, vb, vres>>

\* Lines 362-390: the exclusive choice of --exec or python_args, and shell mode.
Validate ==
    /\ pc = "start"
    /\ IF ObjectBool(args.exec) /\ ListBool(args.python_args)
       THEN InvalidArgument("--exec and python_args are exclusive")
       ELSE IF ~(ObjectBool(args.exec) \/ ListBool(args.python_args))
       THEN InvalidArgument("must specify one argument of --exec or python_args")
       ELSE IF args.python_args = <<"bash">>
       THEN /\ out' = out \o <<Write("splash", "stdout", <<"splash", "\n">>)>>
            /\ ret' = "execvp"
            /\ pc' = "done"
       ELSE /\ pc' = "before"
            /\ UNCHANGED <<out, ret>>
    /\ UNCHANGED <<argv, args, installed, todo, p, csp, log, calls, va, vb, vres>>

\* A before hook whose failure is ignored.
BeforeHook_ignoring ==
    /\ pc = "before"
    /\ \E proc \in ProcsOf(args.before) :
          LET r == SectionPrinter_print(p, <<"before">>, proc.stdout)
          IN /\ log' = Append(log, Event("before", <<>>, proc))
             /\ p' = r.sp
             /\ out' = out \o r.w
             /\ pc' = "find"
             /\ UNCHANGED ret
    /\ UNCHANGED <<argv, args, installed, todo, csp, calls, va, vb, vres>>

\* Lines 401-402: run the before hook and print its section.
BeforeHook ==
    /\ pc = "before"
    /\ \E proc \in ProcsOf(args.before) :
          LET res == Run(args.before, proc)
          IN /\ log' = Append(log, Event("before", <<>>, proc))
             /\ IF res.raised
                THEN FatalHandler(res.value) /\ UNCHANGED p
                ELSE LET r == SectionPrinter_print(p, <<"before">>, res.value)
                     IN /\ p' = r.sp
                        /\ out' = out \o r.w
                        /\ pc' = "find"
                        /\ UNCHANGED ret
    /\ UNCHANGED <<argv, args, installed, todo, csp, calls, va, vb, vres>>

\* Lines 404-406: the compactor, and sorted(repo.find(matcher=version_matcher)).
\* An AttributeError is caught by neither handler and ends main().
Find ==
    /\ pc = "find"
    /\ LET f == find(args, find_all(installed))
       IN IF f.raised
          THEN /\ ret' = f.value
               /\ pc' = "done"
               /\ UNCHANGED todo
          ELSE /\ todo' = sorted(f.value)
               /\ pc' = "loop"
               /\ UNCHANGED ret
    /\ csp' = CompactSectionPrinter
    /\ UNCHANGED <<argv, args, installed, p, out, log, calls, va, vb, vres>>

\* The command of the loop body: --exec, or python with the positional arguments.
LoopCommand == IF ObjectBool(args.exec) THEN args.exec ELSE PythonCommand(args.python_args)

\* A loop body that lets CalledProcessError through to main's handler.
LoopBody_aborting ==
    /\ pc = "loop" /\ todo # <<>>
    /\ \E proc \in RunProcs :
          LET py == Head(todo)
              res == Run(LoopCommand, proc)
          IN /\ log' = Append(log, Event("run", Version_str(py.version), proc))
             /\ todo' = Tail(todo)
             /\ IF res.raised
                THEN FatalHandler(res.value) /\ UNCHANGED <<csp, calls>>
                ELSE LET r == CompactSectionPrinter_print(
                                  csp, Version_str(py.version), res.value)
                     IN /\ csp' = r.c
                        /\ out' = out \o r.w
                        /\ calls' = Append(calls, <<Version_str(py.version), res.value>>)
                        /\ UNCHANGED <<pc, ret>>
    /\ UNCHANGED <<argv, args, installed, p, va, vb, vres>>

\* Lines 406-424: run the command on the next interpreter; a failure becomes the
\* text of its section; hand the section to the compactor.
LoopBody ==
    /\ pc = "loop" /\ todo # <<>>
    /\ \E proc \in RunProcs :
          LET py == Head(todo)
              res == Run(LoopCommand, proc)
              text == IF res.raised THEN FailureOut(res.value) ELSE res.value
              r == CompactSectionPrinter_print(csp, Version_str(py.version), text)
          IN /\ log' = Append(log, Event("run", Version_str(py.version), proc))
             /\ todo' = Tail(todo)
             /\ csp' = r.c
             /\ out' = out \o r.w
             /\ calls' = Append(calls, <<Version_str(py.version), text>>)
    /\ UNCHANGED <<argv, args, installed, pc, ret, p, va, vb, vres>>

\* Line 425: csp.close() once the loop is over.
CloseStep ==
    /\ pc = "loop" /\ todo = <<>>
    /\ LET r == CompactSectionPrinter_close(csp)
       IN /\ csp' = r.c
          /\ out' = out \o r.w
    /\ log' = Append(log, Event("close", <<>>, NoProc))
    /\ pc' = "after"
    /\ UNCHANGED <<argv, args, installed, ret, todo, p, calls, va, vb, vres>>

\* Lines 427-428: run the after hook, print its section, return 0.
AfterHook ==
    /\ pc = "after"
    /\ \E proc \in ProcsOf(args.after) :
          LET res == Run(args.after, proc)
          IN /\ log' = Append(log, Event("after", <<>>, proc))
             /\ IF res.raised
                THEN FatalHandler(res.value) /\ UNCHANGED p
                ELSE LET r == SectionPrinter_print(p, <<"after">>, res.value)
                     IN /\ p' = r.sp
                        /\ out' = out \o r.w
                        /\ ret' = "0"
                        /\ pc' = "done"
    /\ UNCHANGED <<argv, args, installed, todo, csp, calls, va, vb, vres>>

Init == MainInit

Next == Validate \/ BeforeHook \/ Find \/ LoopBody \/ CloseStep \/ AfterHook

Spec == Init /\ [][Next]_vars

\* ---------------------------------------------------------------- the compactor alone
\* A CompactSectionPrinter driven directly, as in its doctest: any print() calls,
\* then one close().
DriverInit ==
    /\ argv = [before |-> Absent, exec |-> Absent, after |-> Absent,
               min_version |-> Absent, max_version |-> Absent, version |-> Absent,
               python_args |-> <<>>]
    /\ args = parse_args(argv)
    /\ installed = <<>>
    /\ pc = "driver"
    /\ ret = "running"
    /\ todo = <<>>
    /\ p = SectionPrinter(TRUE, "stdout")
    /\ csp = CompactSectionPrinter
    /\ out = <<>>
    /\ log = <<>>
    /\ calls = <<>>
    /\ va = <<>> /\ vb = <<>> /\ vres = NoResult

DriverPrint ==
    /\ pc = "driver"
    /\ Len(calls) < MaxCalls
    /\ \E header \in Labels, msg \in Msgs :
          LET r == CompactSectionPrinter_print(csp, header, msg)
          IN /\ csp' = r.c
             /\ out' = out \o r.w
             /\ calls' = Append(calls, <<header, msg>>)
    /\ UNCHANGED <<argv, args, installed, pc, ret, todo, p, log, va, vb, vres>>

DriverClose ==
    /\ pc = "driver"
    /\ LET r == CompactSectionPrinter_close(csp)
       IN /\ csp' = r.c
          /\ out' = out \o r.w
    /\ pc' = "closed"
    /\ UNCHANGED <<argv, args, installed, ret, todo, p, log, calls, va, vb, vres>>

DriverNext == DriverPrint \/ DriverClose

SpecCSP == DriverInit /\ [][DriverNext]_vars

\* ---------------------------------------------------------------- Version alone
\* Two version strings, parsed and compared with every operator of the class.
CompareInit ==
    /\ argv = [before |-> Absent, exec |-> Absent, after |-> Absent,
               min_version |-> Absent, max_version |-> Absent, version |-> Absent,
               python_args |-> <<>>]
    /\ args = parse_args(argv)
    /\ installed = <<>>
    /\ pc = "compare"
    /\ ret = "running"
    /\ todo = <<>>
    /\ p = SectionPrinter(TRUE, "stdout")
    /\ csp = CompactSectionPrinter
    /\ out = <<>>
    /\ log = <<>>
    /\ calls = <<>>
    /\ va \in SeqsUpTo(VersionChars, MaxVerLen)
    /\ vb \in SeqsUpTo(VersionChars, MaxVerLen)
    /\ vres = NoResult

Compare ==
    /\ pc = "compare"
    /\ vres' = [done |-> TRUE,
                lt |-> Version_lt(Version(va), Version(vb)),
                eq |-> Version_eq(Version(va), Version(vb)),
                gt |-> Version_gt(Version(va), Version(vb)),
                le |-> Version_le(Version(va), Version(vb))]
    /\ pc' = "compared"
    /\ UNCHANGED <<argv, args, installed, ret, todo, p, csp, out, log, calls, va, vb>>

CompareNext == Compare

SpecVersion == CompareInit /\ [][CompareNext]_vars

\* ================================================================ properties
\* What the properties below read off the state.

\* The sections printed so far, in order: each header line with the body after it.
RECURSIVE SectionsOf(_)
SectionsOf(w) ==
    IF Len(w) < 2 THEN <<>>
    ELSE IF Head(w).stmt = "header"
         THEN <<[header |-> w[1].text, body |-> w[2].text, file |-> w[1].file]>>
              \o SectionsOf(Tail(Tail(w)))
    ELSE SectionsOf(Tail(w))

\* A header line, and a body as print() ends it.
HeaderLine(h) == <<"=====> ">> \o h \o <<" <=====", "\n">>
BodyText(m) == IF m # <<>> /\ m[Len(m)] = "\n" THEN m ELSE m \o <<"\n">>

\* The last call of the maximal run of equal texts that starts at call i.
RunEnd(cs, i) ==
    CHOOSE j \in i..Len(cs) :
        /\ \A k \in i..j : cs[k][2] = cs[i][2]
        /\ j = Len(cs) \/ cs[j + 1][2] # cs[i][2]

\* The header the specification gives the run i..j.
RunHeader(cs, i, j) == IF i = j THEN cs[i][1] ELSE cs[i][1] \o <<" ~ ">> \o cs[j][1]

\* One section per maximal run of equal texts, from call i on.
RECURSIVE RunSections(_, _)
RunSections(cs, i) ==
    IF i > Len(cs) THEN <<>>
    ELSE <<[header |-> HeaderLine(RunHeader(cs, i, RunEnd(cs, i))),
            body |-> BodyText(cs[i][2]), file |-> "stdout"]>>
         \o RunSections(cs, RunEnd(cs, i) + 1)

\* The compactor holds no pending section.
Idle(c) == c.first_header = None /\ c.last_header = None /\ c.previous_msg = None

\* The events of one kind in the log.
EventsOf(kind) == {i \in 1..Len(log) : log[i].ev = kind}

\* The run events of the log, in order.
RunEvents == SelectSeq(log, LAMBDA e : e.ev = "run")

\* The filter the command line asks for: L <= v, v < U, and one of the patterns.
Accepts(cl, d) ==
    /\ cl.min_version.given =>
           MinVersionMatcher_match(MinVersionMatcher(cl.min_version.value), Version(d))
    /\ cl.max_version.given =>
           MaxVersionMatcher_match(MaxVersionMatcher(cl.max_version.value), Version(d))
    /\ cl.version.given =>
           MultiVersionMatcher_match(MultiVersionMatcher(cl.version.value), Version(d))

Accepted == {installed[i] : i \in {k \in 1..Len(installed) : Accepts(argv, installed[k])}}

BothOrNeither == argv.exec.given = (argv.python_args # <<>>)

ShellMode == argv.python_args = <<"bash">>

ConfigMessages == {"--exec and python_args are exclusive",
                   "must specify one argument of --exec or python_args"}

ConfigErrorPrinted ==
    \E i \in 1..Len(out) :
        out[i].stmt = "error" /\ out[i].file = "stderr" /\ out[i].text[2] \in ConfigMessages

Failed(kind) == \E i \in EventsOf(kind) : log[i].returncode # 0

\* ---------------------------------------------------------------- C1
\* C1: driven by any print() calls and one close(), the compactor emits exactly one
\* section per maximal run of calls with equal text, in order, headed 'first ~ last'
\* for a run of two or more labels and by the label alone for a run of one; while
\* the calls go on, only the runs before the pending one are emitted; after close()
\* it is idle.
C1_MaximalRuns ==
    /\ pc = "closed" =>
           /\ SectionsOf(out) = RunSections(calls, 1)
           /\ Idle(csp)
    /\ (pc = "driver" /\ calls # <<>>) =>
           \E i \in 1..Len(calls) :
               /\ RunEnd(calls, i) = Len(calls)
               /\ i = 1 \/ calls[i - 1][2] # calls[i][2]
               /\ SectionsOf(out) = RunSections(SubSeq(calls, 1, i - 1), 1)

\* ---------------------------------------------------------------- C2
\* The literal command of the per-interpreter runs, as the command line gives it.
LiteralCommand ==
    IF argv.exec.given THEN argv.exec.value
    ELSE <<"[", "python">> \o argv.python_args \o <<"]">>

IsPrefix(a, b) == Len(a) <= Len(b) /\ SubSeq(b, 1, Len(a)) = a
IsSuffix(a, b) == Len(a) <= Len(b) /\ SubSeq(b, Len(b) - Len(a) + 1, Len(b)) = a
Contains(b, x) == \E i \in 1..Len(b) : b[i] = x

\* C2: a per-interpreter command that exits non-zero does not abort the run: its
\* version's section is handed to the compactor with the captured output, the exit
\* code and the literal command; every later interpreter of the sorted list is
\* still run, and the after hook still runs.
C2_FailureDoesNotAbort ==
    /\ Len(calls) = Len(RunEvents)
    /\ \A k \in 1..Len(RunEvents) :
           /\ calls[k][1] = RunEvents[k].ver
           /\ RunEvents[k].returncode # 0 =>
                  /\ IsPrefix(RStripNL(RunEvents[k].stdout), calls[k][2])
                  /\ Contains(calls[k][2], ToString(RunEvents[k].returncode))
                  /\ IsSuffix(<<"Command: ">> \o LiteralCommand, calls[k][2])
    /\ (Failed("run") /\ pc \in {"after", "done"}) =>
           /\ {RunEvents[k].ver : k \in 1..Len(RunEvents)} = Accepted
           /\ EventsOf("close") # {}
    /\ (Failed("run") /\ pc = "done") => EventsOf("after") # {}

\* A first run failed, a later interpreter was run, and main() is over.
C2_Witness ==
    /\ pc = "done"
    /\ Len(RunEvents) >= 2
    /\ RunEvents[1].returncode # 0
    /\ EventsOf("after") # {}

\* ---------------------------------------------------------------- C3
\* C3: once the before hook has exited non-zero, no per-interpreter command is
\* ever executed and the after hook is never run.
C3_BeforeFailureAborts ==
    Failed("before") => (EventsOf("run") = {} /\ EventsOf("after") = {}
                             /\ EventsOf("close") = {} /\ pc = "done")

\* The before hook failed with an interpreter to run and an after hook given.
C3_Witness ==
    /\ Failed("before")
    /\ pc = "done"
    /\ Accepted # {}
    /\ argv.after.given

\* ---------------------------------------------------------------- C4
\* C4: when the before or the after hook exits non-zero, main() prints the error
\* and the captured output to standard error and the process ends with a non-zero
\* exit code.
C4_HookFailureExitsNonZero ==
    (pc = "done" /\ (Failed("before") \/ Failed("after"))) =>
        /\ \E i \in 1..Len(out) : out[i].stmt = "error" /\ out[i].file = "stderr"
        /\ \A k \in EventsOf("before") \cup EventsOf("after") :
               (log[k].returncode # 0 /\ log[k].stdout # <<>>) =>
                   \E i \in 1..Len(out) : /\ out[i].stmt = "msg"
                                          /\ out[i].file = "stderr"
                                          /\ out[i].text = BodyText(log[k].stdout)
        /\ ExitStatus(ret) # 0

\* ---------------------------------------------------------------- C5
\* C5: with both --exec and python_args, or with neither, main() returns 1, prints
\* 'ERROR: <message>' to standard error and runs no command at all; with exactly
\* one of them this error never occurs.
C5_ExclusiveArguments ==
    /\ BothOrNeither =>
           /\ log = <<>>
           /\ pc \in {"start", "done"}
           /\ pc = "done" =>
                  /\ ret = "1"
                  /\ Len(out) = 1
                  /\ ConfigErrorPrinted
                  /\ out[1].text[1] = "ERROR: "
    /\ ~BothOrNeither => (ret # "1" /\ ~ConfigErrorPrinted)

\* Both were given and main() has returned.
C5_Witness ==
    /\ argv.exec.given /\ argv.python_args # <<>>
    /\ argv.before.given
    /\ installed # <<>>
    /\ pc = "done"
    /\ ret = "1"

\* ---------------------------------------------------------------- C6
\* C6: whatever combination of -s L, -e U and -v P is given, the interpreters the
\* command is run on are exactly the discovered ones whose version v passes every
\* given filter (L <= v, v < U, a pattern of P matches).
C6_FilterIsConjunction ==
    (pc = "done" /\ ~BothOrNeither /\ ~ShellMode /\ ~Failed("before")) =>
        {RunEvents[k].ver : k \in 1..Len(RunEvents)} = Accepted

\* ---------------------------------------------------------------- C7
\* A version string with every integer part written without leading zeros (a
\* missing one as 0): what two equal versions have in common.
RECURSIVE StripZeros(_)
StripZeros(d) == IF Len(d) > 1 /\ Head(d) = "0" THEN StripZeros(Tail(d)) ELSE d

CanonSegment(c) ==
    LET d == LeadingDigits(c)
    IN (IF d = <<>> THEN <<"0">> ELSE StripZeros(d)) \o SubSeq(c, Len(d) + 1, Len(c))

Canon(v) == [i \in 1..Len(Split(v, ".")) |-> CanonSegment(Split(v, ".")[i])]

Lt(a, b) == Version_lt(Version(a), Version(b))

\* C7: Version comparison is a total order: exactly one of a < b, a == b, b < a;
\* a < b and b < c imply a < c; two versions are equal exactly when their
\* (integer, suffix) pairs are, so leading zeros do not matter; integers compare
\* numerically.
C7_TotalOrder ==
    vres.done =>
        /\ (IF vres.lt THEN 1 ELSE 0) + (IF vres.eq THEN 1 ELSE 0)
               + (IF Lt(vb, va) THEN 1 ELSE 0) = 1
        /\ vres.gt = Lt(vb, va)
        /\ vres.le = (vres.lt \/ vres.eq)
        /\ vres.eq = (Canon(va) = Canon(vb))
        /\ \A vc \in SeqsUpTo(VersionChars, MaxVerLen) :
               (vres.lt /\ Lt(vb, vc)) => Lt(va, vc)
        /\ (va # <<>> /\ vb # <<>> /\ IsDigits(va) /\ IsDigits(vb)) =>
               (vres.lt = (IntOf(va) < IntOf(vb)))

\* '2' has been compared with '10', which a string comparison would put first.
C7_Witness == vres.done /\ va = <<"2">> /\ vb = <<"1", "0">> /\ vres.lt

\* ---------------------------------------------------------------- C8
\* The printed lines that make up sections and the gaps between them.
Layout == SelectSeq(out, LAMBDA w : w.stmt \in {"gap", "header", "msg"})

\* C8: every two consecutive printed sections of a run are separated by exactly one
\* blank line, written to the stream of the sections it separates.
C8_OneBlankLineBetweenSections ==
    \A i \in 1..Len(Layout) :
        (Layout[i].stmt = "header" /\ i > 1) =>
            /\ Layout[i - 1].stmt = "gap"
            /\ Layout[i - 1].file = Layout[i].file
            /\ i > 2 /\ Layout[i - 2].stmt = "msg"
            /\ Layout[i - 2].file = Layout[i].file

\* ---------------------------------------------------------------- C9
HeaderPrinted(h) == \E i \in 1..Len(out) : out[i].stmt = "header" /\ out[i].text = HeaderLine(h)

EmptyHookOutput(kind) ==
    \E i \in EventsOf(kind) : log[i].returncode = 0 /\ log[i].stdout = <<>>

\* C9: the plain printer never emits a section with empty text and such a call
\* leaves its gap state as it was; the compactor always emits one: after close(),
\* every version that ran is within the range of an emitted section with its text,
\* also when the text is empty.
C9_EmptySections ==
    /\ EmptyHookOutput("before") =>
           /\ ~HeaderPrinted(<<"before">>)
           /\ ~p.need_section_gap \/ HeaderPrinted(<<"after">>)
    /\ EmptyHookOutput("after") =>
           /\ ~HeaderPrinted(<<"after">>)
           /\ p.need_section_gap = HeaderPrinted(<<"before">>)
    /\ EventsOf("close") # {} =>
           \A k \in 1..Len(calls) :
               \E i \in 1..k :
                   /\ RunEnd(calls, i) >= k
                   /\ \E n \in 1..Len(SectionsOf(out)) :
                          /\ SectionsOf(out)[n].header
                                 = HeaderLine(RunHeader(calls, i, RunEnd(calls, i)))
                          /\ SectionsOf(out)[n].body = BodyText(calls[k][2])

\* Both hooks and one interpreter printed nothing, and main() returned 0.
C9_Witness ==
    /\ pc = "done" /\ ret = "0"
    /\ argv.before.given /\ EmptyHookOutput("before")
    /\ argv.after.given /\ EmptyHookOutput("after")
    /\ \E k \in 1..Len(calls) : calls[k][2] = <<>>
    /\ \E n \in 1..Len(SectionsOf(out)) : SectionsOf(out)[n].body = <<"\n">>

\* ---------------------------------------------------------------- C10
Rank(e) == CASE e.ev = "before" -> 1 [] e.ev = "run" -> 2 [] e.ev = "close" -> 3
             [] OTHER -> 4

====
